---- MODULE Spec2Model ----
(***************************************************************************)
(* Model of scripts/calculateFilterEff.py: the batch pipeline that, for    *)
(* every dataset of a list, resolves a process name, lists the dataset's   *)
(* files with dasgoclient, runs cmsRun on them, parses the GenXsecAnalyzer *)
(* report, stores the record in self.results and flushes it to a JSON file.*)
(*                                                                         *)
(* Representation:                                                         *)
(*   - a str is a sequence of one-character strings; a dataset is held in  *)
(*     the state by a short name and DatasetText gives its characters;     *)
(*   - None is <<>> for a str (both are falsy in the code) and NoneNum     *)
(*     for a number;                                                       *)
(*   - a float is an integer count of millionths;                          *)
(*   - the list of files of a dataset is its length (the code reads only   *)
(*     len(files) and the truth value of the list);                        *)
(*   - the analyzer's report is a sequence of lines, each of the kind of   *)
(*     pattern it matches, with the two numeric tokens it carries;         *)
(*   - a file is [st, data]: absent, partial (opened for writing and not   *)
(*     yet written: not a JSON document) or ok with the mapping it holds.  *)
(***************************************************************************)
EXTENDS Integers, Sequences, FiniteSets, TLC

\* ------------------------------------------------------------------ bounds
MaxDatasets == 2
MaxFiles == 1
MaxJobs == 2
MaxRuns == 3
MaxLines == 3

\* ------------------------------------------------------------ str helpers
NoneStr == <<>>
NoneNum == -1

Digits == {"0", "1", "2", "3", "4", "5", "6", "7", "8", "9"}

\* s.split('/'): the segments between the separators, the k-th of them running
\* from after the (k-1)-th '/' (or the start) to before the k-th '/' (or the end)
Split(s) ==
    LET seps   == {p \in 1..Len(s) : s[p] = "/"}
        sep(k) == IF k = 0 THEN 0
                  ELSE IF k > Cardinality(seps) THEN Len(s) + 1
                  ELSE CHOOSE p \in seps : Cardinality({q \in seps : q < p}) = k - 1
    IN [k \in 1..(Cardinality(seps) + 1) |-> SubSeq(s, sep(k - 1) + 1, sep(k) - 1)]

\* a faulty variant of DigitRun, which takes one digit at most
OneDigit(s, at) == IF at <= Len(s) /\ s[at] \in Digits THEN 1 ELSE 0

\* how many characters \d+ takes, greedily, from position at (1-based)
DigitRun(s, at) ==
    CHOOSE n \in 0..Len(s) :
        /\ \A j \in at..(at + n - 1) : j <= Len(s) /\ s[j] \in Digits
        /\ ~(at + n <= Len(s) /\ s[at + n] \in Digits)

HasAt(s, at, lit) ==
    /\ at + Len(lit) - 1 <= Len(s)
    /\ \A j \in 1..Len(lit) : s[at + j - 1] = lit[j]

TagLit ==
    <<"T", "T", "T", "o", "H", "c", "T", "o", "W", "A", "T", "o", "M", "u",
      "M", "u", "_", "M", "H", "c", "-">>

MALit == <<"_", "M", "A">>

\* re.match(r'(TTToHcToWAToMuMu_MHc-\d+_MA-?\d+)', s): the matched prefix, or
\* NoneStr. \d+ is greedy and what follows it is never a digit, '-?' is
\* followed by a digit, so no backtracking finds a match the greedy run misses.
ReMatchProcess(s) ==
    IF ~HasAt(s, 1, TagLit) THEN NoneStr
    ELSE LET a  == Len(TagLit) + 1
             d1 == DigitRun(s, a)
             b  == a + d1
         IN IF d1 = 0 \/ ~HasAt(s, b, MALit) THEN NoneStr
            ELSE LET c  == b + Len(MALit)
                     c2 == IF HasAt(s, c, <<"-">>) THEN c + 1 ELSE c
                     d2 == DigitRun(s, c2)
                 IN IF d2 = 0 THEN NoneStr ELSE SubSeq(s, 1, c2 + d2 - 1)

extract_process_name(dataset) ==
    LET parts == Split(dataset)
    IN IF Len(parts) < 2 THEN NoneStr ELSE ReMatchProcess(parts[2])

\* ------------------------------------------------------------- the inputs
ProcA == TagLit \o <<"1", "_", "M", "A", "-", "5">>
ProcB == TagLit \o <<"1", "_", "M", "A", "1", "5">>

DatasetNames == {"dA1", "dA2", "dB", "dBad"}

\* further identifiers, for extract_process_name alone: both forms of the MA
\* part, one or several digits, text after the digits or none, the pattern in
\* another place than the start of the second segment, and parts of it missing
ResolveNames ==
    {"r01", "r02", "r03", "r04", "r05", "r06", "r07",
     "r08", "r09", "r10", "r11", "r12", "r13", "r14"}

\* the characters of each dataset identifier of the model
DatasetText(d) ==
    CASE d = "dA1"  -> <<"/">> \o ProcA \o <<"_", "x", "/", "c", "1", "/", "M">>
      [] d = "dA2"  -> <<"/">> \o ProcA \o <<"_", "x", "/", "c", "2", "/", "M">>
      [] d = "dB"   -> <<"/">> \o ProcB \o <<"_", "x", "/", "c", "1", "/", "M">>
      [] d = "dBad" -> <<"/", "Q", "C", "D", "_", "M", "A", "-", "5", "/", "c", "1", "/", "M">>
      [] d = "r01"  -> <<"/">> \o TagLit \o <<"1", "0", "0", "_", "M", "A", "-", "1", "5", "_", "M", "u", "l", "t", "i", "/", "c", "1", "/", "M">>
      [] d = "r02"  -> <<"/">> \o TagLit \o <<"1", "0", "0", "_", "M", "A", "1", "3", "5", "_", "x", "/", "c", "1", "/", "M">>
      [] d = "r03"  -> <<"/">> \o TagLit \o <<"7", "0", "_", "M", "A", "-", "5">>
      [] d = "r04"  -> <<"c", "0", "/">> \o TagLit \o <<"1", "_", "M", "A", "5", "/", "M">>
      [] d = "r05"  -> TagLit \o <<"1", "_", "M", "A", "-", "5", "_", "x">>
      [] d = "r06"  -> TagLit \o <<"1", "_", "M", "A", "-", "5", "_", "x", "/", "c", "1">>
      [] d = "r07"  -> <<"/", "x">> \o TagLit \o <<"1", "_", "M", "A", "-", "5", "/", "c", "1">>
      [] d = "r08"  -> <<"/">> \o TagLit \o <<"_", "M", "A", "-", "5", "/", "c", "1">>
      [] d = "r09"  -> <<"/">> \o TagLit \o <<"1", "_", "M", "A", "-", "x", "/", "c", "1">>
      [] d = "r10"  -> <<"/">> \o TagLit \o <<"1", "_", "M", "A", "-", "-", "5", "/", "c", "1">>
      [] d = "r11"  -> <<>>
      [] d = "r12"  -> <<"/">> \o TagLit \o <<"1", "_", "M", "A", "-", "5", "7", "x", "9", "/", "c", "1">>
      [] d = "r13"  -> <<"/", "/">> \o TagLit \o <<"1", "_", "M", "A", "-", "5">>
      [] d = "r14"  -> <<"/", "t", "t", "t", "o", "h", "c", "t", "o", "w", "a", "t", "o", "m", "u", "m", "u", "_", "M", "H", "c", "-", "1", "_", "M", "A", "-", "5", "/", "c", "1">>
      [] OTHER      -> <<"x">>

ProcessKeys == {ProcA, ProcB}

\* extract_process_name of each dataset of the model
ProcessNameOf ==
    [d \in DatasetNames \cup ResolveNames |-> extract_process_name(DatasetText(d))]

\* --------------------------------------------------- External Job Runner
\* what the dasgoclient subprocess does: it exits 0 with n non-blank lines on
\* stdout (none, or MaxFiles of them), exits non-zero, exceeds the timeout, or
\* cannot be started
DasOutcomes ==
    {[rc |-> "ok", n |-> k] : k \in {0, MaxFiles}}
        \cup {[rc |-> r, n |-> 0] : r \in {"nonzero", "timeout", "fault"}}

\* a faulty variant of query_das_files, which tells a timeout from the other
\* failures
QueryTimeoutSurfaces(dry, out) ==
    IF dry THEN 0
    ELSE IF out.rc = "ok" THEN out.n
    ELSE IF out.rc = "timeout" THEN NoneNum
    ELSE 0

\* the value query_das_files returns (the length of the list)
query_das_files(dry, out) ==
    IF dry THEN 0
    ELSE IF out.rc = "ok" THEN out.n
    ELSE 0

\* a faulty variant of query_das_invokes, which queries under dry-run too
QueriesAlways(dry) == TRUE

\* whether query_das_files starts the subprocess
query_das_invokes(dry) == ~dry

\* the numeric tokens ([\d.eE+-]+) of the reports of the model
Tokens == {"1.160e-02", "1.514e-03", "0.25", "2.5e-01", "5.0e+00", "1.2.3"}

NumErr == -2

\* float(token) in millionths; NumErr when float raises ValueError
ToFloat(tok) ==
    CASE tok = "1.160e-02" -> 11600
      [] tok = "1.514e-03" -> 1514
      [] tok = "0.25"      -> 250000
      [] tok = "2.5e-01"   -> 250000
      [] tok = "5.0e+00"   -> 5000000
      [] OTHER             -> NumErr

Line(kind, v, e, n) == [kind |-> kind, v |-> v, e |-> e, n |-> n]

\* the reports cmsRun writes in the model (on stderr, through MessageLogger)
RepEvent ==
    <<Line("fe_event", "1.160e-02", "1.514e-03", 0),
      Line("xs_before", "5.0e+00", "0.25", 0),
      Line("xs_after", "2.5e-01", "1.514e-03", 0),
      Line("events", "", "", 5000)>>
RepLoose == <<Line("fe_loose", "0.25", "1.514e-03", 0)>>
RepNoEff == <<Line("xs_after", "5.0e+00", "0.25", 0), Line("events", "", "", 5000)>>
RepBadNum == <<Line("fe_event", "1.2.3", "1.514e-03", 0)>>
RepNothing == <<>>

Reports == {RepEvent, RepLoose, RepNoEff, RepBadNum, RepNothing}

\* one line for each kind of line the patterns of parse_genxsec_output tell
\* apart, each with its own value and error
ReportLines ==
    {Line("fe_event", "1.160e-02", "1.514e-03", 0),
     Line("fe_loose", "0.25", "2.5e-01", 0),
     Line("xs_after", "2.5e-01", "1.514e-03", 0),
     Line("xs_before", "5.0e+00", "0.25", 0),
     Line("xs_bare", "1.160e-02", "5.0e+00", 0),
     Line("events", "", "", 5000)}

\* the reports of at most MaxLines of these lines, in any order
LineReports == UNION {[1..k -> ReportLines] : k \in 0..MaxLines}

\* a str holding a report: its lines and the number of bare line breaks in it
NoneOut == [kind |-> "None", lines |-> <<>>, nl |-> 0]
DryOut == [kind |-> "DRY_RUN_OUTPUT", lines |-> <<>>, nl |-> 0]
Text(lines, nl) == [kind |-> "text", lines |-> lines, nl |-> nl]

\* not output: None or the empty str
Falsy(text) ==
    \/ text.kind = "None"
    \/ text.kind = "text" /\ text.lines = <<>> /\ text.nl = 0

\* what run_cmsrun meets: whether FilterEff/ana.py exists, and what the cmsRun
\* subprocess does: it exits 0 with its report on stderr, exits non-zero,
\* exceeds the timeout, or cannot be started
CmsOutcomes ==
    {[ana_py |-> TRUE, rc |-> "ok", stdout |-> <<>>, stderr |-> r] : r \in Reports}
        \cup {[ana_py |-> TRUE, rc |-> r, stdout |-> <<>>, stderr |-> <<>>] :
                  r \in {"nonzero", "timeout", "fault"}}
        \cup {[ana_py |-> FALSE, rc |-> "ok", stdout |-> <<>>, stderr |-> <<>>]}

\* the value run_cmsrun returns
run_cmsrun(nfiles, dry, out) ==
    IF nfiles = 0 THEN NoneOut
    ELSE IF ~out.ana_py THEN NoneOut
    ELSE IF dry THEN DryOut
    ELSE IF out.rc = "ok" THEN Text(out.stdout \o out.stderr, 1)
    ELSE NoneOut

\* whether run_cmsrun starts the subprocess
run_cmsrun_invokes(nfiles, dry, out) ==
    nfiles # 0 /\ out.ana_py /\ ~dry

\* ------------------------------------------------------ Pattern Extractor
\* re.search: the first line the pattern matches, 0 when none does
Search(lines, kinds) ==
    LET hits == {j \in 1..Len(lines) : lines[j].kind \in kinds}
    IN IF hits = {} THEN 0 ELSE CHOOSE j \in hits : \A h \in hits : j <= h

\* the kinds of line each pattern of parse_genxsec_output matches: the looser
\* patterns also match the lines of the stricter ones
PatFeEvent == {"fe_event"}
PatFeLoose == {"fe_event", "fe_loose"}
PatXsAfter == {"xs_after"}
PatXsBefore == {"xs_before"}
PatXsBare == {"xs_after", "xs_before", "xs_bare"}
PatEvents == {"events"}

\* faulty variants of filter_eff_match and xsec_match, which take the first
\* line any of the patterns matches
FilterEffFirstLine(lines) == Search(lines, PatFeLoose)
XsecFirstLine(lines) == Search(lines, PatXsBare)

filter_eff_match(lines) ==
    IF Search(lines, PatFeEvent) # 0 THEN Search(lines, PatFeEvent)
    ELSE Search(lines, PatFeLoose)

xsec_match(lines) ==
    IF Search(lines, PatXsAfter) # 0 THEN Search(lines, PatXsAfter)
    ELSE IF Search(lines, PatXsBefore) # 0 THEN Search(lines, PatXsBefore)
    ELSE Search(lines, PatXsBare)

\* parse_genxsec_output: [st |-> "None"], [st |-> "raise"] when a float() raises,
\* or [st |-> "ok"] with the dict it returns
ParsedNone ==
    [st |-> "None", filter_efficiency |-> NoneNum, filter_efficiency_error |-> NoneNum,
     cross_section |-> NoneNum, cross_section_error |-> NoneNum, total_events |-> NoneNum]

parse_genxsec_output(text) ==
    IF Falsy(text) THEN ParsedNone
    ELSE LET ls == text.lines
             f  == filter_eff_match(ls)
             x  == xsec_match(ls)
             t  == Search(ls, PatEvents)
             fe == IF f = 0 THEN NoneNum ELSE ToFloat(ls[f].v)
             ee == IF f = 0 THEN NoneNum ELSE ToFloat(ls[f].e)
             xs == IF x = 0 THEN NoneNum ELSE ToFloat(ls[x].v)
             xe == IF x = 0 THEN NoneNum ELSE ToFloat(ls[x].e)
         IN [st |-> IF NumErr \in {fe, ee, xs, xe} THEN "raise" ELSE "ok",
             filter_efficiency |-> fe, filter_efficiency_error |-> ee,
             cross_section |-> xs, cross_section_error |-> xe,
             total_events |-> IF t = 0 THEN NoneNum ELSE ls[t].n]

\* the placeholder record of a dry run
DryRunResult(nfiles) ==
    [filter_efficiency |-> 0, cross_section |-> 0, total_files |-> nfiles,
     total_events |-> 0]

\* the record built from a parsed report
MetricsRecord(parsed, nfiles) ==
    [filter_efficiency |-> parsed.filter_efficiency,
     filter_efficiency_error |-> parsed.filter_efficiency_error,
     cross_section |-> parsed.cross_section,
     cross_section_error |-> parsed.cross_section_error,
     total_files |-> nfiles,
     total_events |-> parsed.total_events]

\* ----------------------------------------------------------- Result Store
EmptyMap == <<>>

\* self.results[key] = record
Put(m, key, record) ==
    [k \in DOMAIN m \cup {key} |-> IF k = key THEN record ELSE m[k]]

\* a.update(b)
Update(a, b) ==
    [k \in DOMAIN a \cup DOMAIN b |-> IF k \in DOMAIN b THEN b[k] ELSE a[k]]

AbsentFile == [st |-> "absent", data |-> EmptyMap]
PartialFile == [st |-> "partial", data |-> EmptyMap]
JsonFile(m) == [st |-> "ok", data |-> m]

EraName == <<"2", "0", "1", "7">>

\* main(): --era all
Era2016pre == <<"2", "0", "1", "6", "p", "r", "e", "V", "F", "P">>
Era2016post == <<"2", "0", "1", "6", "p", "o", "s", "t", "V", "F", "P">>
Era2018 == <<"2", "0", "1", "8">>
Eras == <<Era2016pre, Era2016post, EraName, Era2018>>
SampleStem == <<"s", "a", "m", "p", "l", "e">>

ResultsFile(stem) == [prefix |-> "results_", stem |-> stem]
SampleFile(key) == [prefix |-> "sample_", stem |-> key]

FileNames ==
    {ResultsFile(Eras[e]) : e \in DOMAIN Eras}
        \cup {ResultsFile(SampleStem)}
        \cup {SampleFile(k) : k \in ProcessKeys}

\* a record left in a file before the first run of the model
OldRecord ==
    [filter_efficiency |-> 5000000, filter_efficiency_error |-> 1514,
     cross_section |-> NoneNum, cross_section_error |-> NoneNum,
     total_files |-> 1, total_events |-> NoneNum]

OldFile == JsonFile([k \in {ProcB} |-> OldRecord])

\* ------------------------------------------------------------------ state
VARIABLES
    pc,               \* where main / run is
    run_no,           \* the number of this invocation of the script
    era,              \* self.era (NoneStr in sample mode)
    dry_run,          \* self.dry_run
    sample_mode,      \* self.sample_mode
    n_jobs,           \* --jobs
    sample_list,      \* the list file of the era: [exists, lines]; in sample
                      \* mode lines holds the --sample argument
    datasets,         \* the list run() processes
    results,          \* self.results
    failed_datasets,  \* self.failed_datasets
    i,                \* _run_serial: the index of the dataset in hand
    process_name,     \* process_dataset: process_name
    files,            \* process_dataset: len(files)
    output,           \* process_dataset: output
    existing_results, \* save_results_incremental: existing_results
    fs,               \* the files under FilterEff/
    next_task,        \* the pool: the next task to hand to a worker
    running,          \* the pool: the tasks in the workers' hands
    outq,             \* the pool: the results not yet consumed, oldest first
    completed,        \* _run_parallel: completed
    das_calls,        \* per dataset index, the dasgoclient subprocesses started
    cms_calls,        \* per dataset index, the cmsRun subprocesses started
    attempted,        \* the dataset indexes whose processing was started
    raised,           \* _run_serial: the dataset indexes whose processing raised
    stored,           \* the dataset indexes whose record was put in self.results
    last_flush,       \* how the last save_results_incremental of this run ended
    durable,          \* the [file, key] pairs a completed flush of this run wrote
    flushLog,         \* the completed single-record flushes: [run, key, record]
    fs0,              \* the files before the first run
    reported          \* whether report_failed_datasets was called in this run

\* what an invocation is started with
cfgVars == <<run_no, era, dry_run, sample_mode, n_jobs, sample_list, fs0>>
localVars == <<process_name, files, output, existing_results>>
poolVars == <<next_task, running, outq, completed>>
callVars == <<das_calls, cms_calls>>
\* what the model records of a run beside the program's own state
ghostVars == <<attempted, raised, stored, last_flush, durable, flushLog, reported>>
vars ==
    <<pc, cfgVars, datasets, results, failed_datasets, i, localVars, fs, poolVars,
      callVars, ghostVars>>

single_dataset == sample_mode

\* run(): n_jobs > 1 and not single_dataset
parallel == n_jobs > 1 /\ ~single_dataset

\* a faulty variant of get_output_file, with one file for every process
OneFileForAll(pn) ==
    IF era # NoneStr THEN ResultsFile(era) ELSE ResultsFile(SampleStem)

\* get_output_file(process_name)
get_output_file(pn) ==
    IF sample_mode /\ pn # NoneStr THEN SampleFile(pn)
    ELSE IF era # NoneStr THEN ResultsFile(era)
    ELSE ResultsFile(SampleStem)

\* the sequences without repetition over S of length at most n
InjSeqs(S, n) ==
    {q \in UNION {[1..k -> S] : k \in 0..n} :
        \A a, b \in 1..Len(q) : a # b => q[a] # q[b]}

Failure(dataset, reason) == [dataset |-> dataset, reason |-> reason]

ZeroCalls == [j \in 1..(MaxDatasets + 1) |-> 0]

\* the state a fresh FilterEffCalculator starts run() in
FreshRun ==
    /\ pc = "start"
    /\ datasets = <<>>
    /\ results = EmptyMap
    /\ failed_datasets = <<>>
    /\ i = 1
    /\ process_name = NoneStr
    /\ files = 0
    /\ output = NoneOut
    /\ existing_results = EmptyMap
    /\ next_task = 1
    /\ running = {}
    /\ outq = <<>>
    /\ completed = 0
    /\ das_calls = ZeroCalls
    /\ cms_calls = ZeroCalls
    /\ attempted = {}
    /\ raised = {}
    /\ stored = {}
    /\ last_flush = "none"
    /\ durable = {}
    /\ reported = FALSE

AllAbsent == [f \in FileNames |-> AbsentFile]

\* main() with --era: one FilterEffCalculator(era, dry_run).run(n_jobs)
Init ==
    /\ FreshRun
    /\ run_no = 1
    /\ era = EraName
    /\ sample_mode = FALSE
    /\ dry_run \in BOOLEAN
    /\ n_jobs \in 1..MaxJobs
    /\ sample_list \in
           {[exists |-> FALSE, lines |-> <<>>]}
               \cup {[exists |-> TRUE, lines |-> q] : q \in InjSeqs(DatasetNames, MaxDatasets)}
    /\ fs \in {AllAbsent, [AllAbsent EXCEPT ![ResultsFile(EraName)] = OldFile]}
    /\ fs0 = fs
    /\ flushLog = <<>>

\* main() with --sample: FilterEffCalculator(dry_run, sample_mode=True)
\* .run(single_dataset=sample, n_jobs=1); the per-process file of ProcA may
\* hold a record under another key
InitSample ==
    /\ FreshRun
    /\ run_no = 1
    /\ era = NoneStr
    /\ sample_mode = TRUE
    /\ dry_run = FALSE
    /\ n_jobs = 1
    /\ sample_list \in {[exists |-> TRUE, lines |-> <<d>>] : d \in DatasetNames}
    /\ fs \in {AllAbsent, [AllAbsent EXCEPT ![SampleFile(ProcA)] = OldFile]}
    /\ fs0 = fs
    /\ flushLog = <<>>

\* the list file of an era, as main() with --era all finds it: missing, or a
\* list of one dataset
EraLists ==
    {[exists |-> FALSE, lines |-> <<>>]}
        \cup {[exists |-> TRUE, lines |-> <<d>>] : d \in DatasetNames}

\* main() with --era all: the first FilterEffCalculator(era, dry_run).run(n_jobs)
\* of the loop over the eras
InitEras ==
    /\ FreshRun
    /\ run_no = 1
    /\ era = Eras[1]
    /\ sample_mode = FALSE
    /\ dry_run \in BOOLEAN
    /\ n_jobs \in 1..MaxJobs
    /\ sample_list \in EraLists
    /\ fs = AllAbsent
    /\ fs0 = fs
    /\ flushLog = <<>>

\* main() with --era, the list of the era holding one of the identifiers of
\* ResolveNames, run serially
InitResolve ==
    /\ FreshRun
    /\ run_no = 1
    /\ era = EraName
    /\ sample_mode = FALSE
    /\ dry_run = FALSE
    /\ n_jobs = 1
    /\ sample_list \in {[exists |-> TRUE, lines |-> <<d>>] : d \in ResolveNames}
    /\ fs = AllAbsent
    /\ fs0 = fs
    /\ flushLog = <<>>

\* process_dataset at its call of parse_genxsec_output: the dataset has a process
\* name and files, and cmsRun has exited 0 with one of the reports of LineReports
InitParse ==
    /\ pc = "parse"
    /\ run_no = 1
    /\ era = EraName
    /\ sample_mode = FALSE
    /\ dry_run = FALSE
    /\ n_jobs = 1
    /\ sample_list = [exists |-> TRUE, lines |-> <<"dA1">>]
    /\ datasets = sample_list.lines
    /\ results = EmptyMap
    /\ failed_datasets = <<>>
    /\ i = 1
    /\ process_name = ProcessNameOf[datasets[1]]
    /\ files = MaxFiles
    /\ output \in {Text(q, 1) : q \in LineReports}
    /\ existing_results = EmptyMap
    /\ fs = AllAbsent
    /\ fs0 = fs
    /\ next_task = 1
    /\ running = {}
    /\ outq = <<>>
    /\ completed = 0
    /\ das_calls = [ZeroCalls EXCEPT ![1] = 1]
    /\ cms_calls = [ZeroCalls EXCEPT ![1] = 1]
    /\ attempted = {1}
    /\ raised = {}
    /\ stored = {}
    /\ last_flush = "none"
    /\ durable = {}
    /\ flushLog = <<>>
    /\ reported = FALSE

\* ------------------------------------------------------- Parallel worker
NoRecord == [filter_efficiency |-> NoneNum]

\* the tuple process_dataset_worker returns: result is a str (kind "str") or a
\* dict (kind "dict"); kind "exc" is an exception leaving the function
WorkerStr(dataset, pn, msg) ==
    [dataset |-> dataset, process_name |-> NoneStr, kind |-> "str", msg |-> msg,
     rec |-> NoRecord]
WorkerDict(dataset, pn, rec) ==
    [dataset |-> dataset, process_name |-> pn, kind |-> "dict", msg |-> "", rec |-> rec]
WorkerExc(dataset) ==
    [dataset |-> dataset, process_name |-> NoneStr, kind |-> "exc",
     msg |-> "ValueError", rec |-> NoRecord]

process_dataset_worker(dataset, dry, dout, cout) ==
    LET pn     == ProcessNameOf[dataset]
        n      == query_das_files(dry, dout)
        o      == run_cmsrun(n, dry, cout)
        parsed == parse_genxsec_output(o)
    IN IF pn = NoneStr THEN WorkerStr(dataset, pn, "Could not extract process name")
       ELSE IF n = 0 THEN WorkerStr(dataset, pn, "No files found for")
       ELSE IF Falsy(o) THEN WorkerStr(dataset, pn, "cmsRun failed for")
       ELSE IF dry THEN WorkerDict(dataset, pn, DryRunResult(n))
       ELSE IF parsed.st = "raise" THEN WorkerExc(dataset)
       ELSE IF parsed.st = "None" \/ parsed.filter_efficiency = NoneNum
            THEN WorkerStr(dataset, pn, "Could not parse filter efficiency for")
       ELSE WorkerDict(dataset, pn, MetricsRecord(parsed, n))

\* whether the worker starts dasgoclient, and cmsRun, for the dataset
worker_das_invokes(dataset, dry) ==
    ProcessNameOf[dataset] # NoneStr /\ query_das_invokes(dry)

worker_cms_invokes(dataset, dry, dout, cout) ==
    /\ ProcessNameOf[dataset] # NoneStr
    /\ run_cmsrun_invokes(query_das_files(dry, dout), dry, cout)

\* what one call of process_dataset_worker can do, over everything the two
\* subprocesses can do: the tuple it returns and the subprocesses it started
WorkerOutcomes ==
    [d \in DatasetNames, dry \in BOOLEAN |->
        {[res |-> process_dataset_worker(d, dry, dout, cout),
          das |-> worker_das_invokes(d, dry),
          cms |-> worker_cms_invokes(d, dry, dout, cout)] :
             dout \in DasOutcomes, cout \in CmsOutcomes}]

\* ---------------------------------------------------------------- actions
Terminal == {"done", "error", "interrupted"}

\* process_dataset returns, or its exception was handled: on to the next dataset
NextDataset ==
    /\ i' = i + 1
    /\ process_name' = NoneStr
    /\ files' = 0
    /\ output' = NoneOut
    /\ existing_results' = EmptyMap
    /\ pc' = "loop"

\* a faulty variant of FailDataset, which attempts the failed dataset again
FailAndRetry(reason) ==
    /\ failed_datasets' = Append(failed_datasets, Failure(datasets[i], reason))
    /\ raised' = raised
    /\ i' = i
    /\ process_name' = NoneStr
    /\ files' = 0
    /\ output' = NoneOut
    /\ existing_results' = EmptyMap
    /\ pc' = "loop"

\* a faulty variant of FailDataset, which keeps the last failure only
FailKeepsLast(reason) ==
    /\ failed_datasets' = <<Failure(datasets[i], reason)>>
    /\ raised' = raised
    /\ NextDataset

\* process_dataset: self.failed_datasets.append((dataset, error_msg)); return
FailDataset(reason) ==
    /\ failed_datasets' = Append(failed_datasets, Failure(datasets[i], reason))
    /\ raised' = raised
    /\ NextDataset

\* a faulty variant of SerialExcept, which lets the exception end the run
SerialExceptAborts ==
    /\ pc' = "error"
    /\ UNCHANGED <<failed_datasets, i, localVars>>

\* _run_serial: except Exception: append the failure and continue
SerialExcept ==
    /\ failed_datasets' =
           Append(failed_datasets, Failure(datasets[i], "Unexpected exception"))
    /\ NextDataset

\* main: except Exception around calculator.run()
MainExcept ==
    /\ pc' = "error"
    /\ UNCHANGED <<failed_datasets, i, localVars>>

\* an exception leaves process_dataset or save_results_incremental:
\* _run_serial catches it, _run_parallel does not
Raise ==
    IF parallel
    THEN MainExcept /\ raised' = raised
    ELSE SerialExcept /\ raised' = raised \cup {i}

Min(a, b) == IF a < b THEN a ELSE b

\* _run_parallel: multiprocessing.Pool(processes=n_jobs) and imap_unordered:
\* each of the n_jobs workers takes a task while there is one
PoolStart(tasks) ==
    /\ running' = 1..Min(n_jobs, Len(tasks))
    /\ next_task' = Min(n_jobs, Len(tasks)) + 1

\* run(): the datasets to process; in parallel, the pool is started
Run_Start ==
    /\ pc = "start"
    /\ IF single_dataset
       THEN /\ datasets' = sample_list.lines
            /\ pc' = "loop"
       ELSE IF ~sample_list.exists
       THEN /\ pc' = "error"
            /\ datasets' = datasets
       ELSE /\ datasets' = sample_list.lines
            /\ pc' = IF parallel THEN "par_loop" ELSE "loop"
    /\ IF parallel /\ sample_list.exists
       THEN PoolStart(sample_list.lines)
       ELSE UNCHANGED <<next_task, running>>
    /\ UNCHANGED <<cfgVars, results, failed_datasets, i, localVars, fs, outq,
                   completed, callVars, ghostVars>>

\* a faulty variant of Serial_Resolve, which goes on to the query without a
\* process name
ResolveSkipsCheck ==
    /\ pc = "loop"
    /\ i <= Len(datasets)
    /\ attempted' = attempted \cup {i}
    /\ process_name' = ProcessNameOf[datasets[i]]
    /\ pc' = "query"
    /\ UNCHANGED <<failed_datasets, raised, i, files, output, existing_results>>
    /\ UNCHANGED <<cfgVars, datasets, results, fs, poolVars, callVars, stored,
                   last_flush, durable, flushLog, reported>>

\* _run_serial: the next dataset; process_dataset: extract_process_name
Serial_Resolve ==
    /\ pc = "loop"
    /\ i <= Len(datasets)
    /\ attempted' = attempted \cup {i}
    /\ LET pn == ProcessNameOf[datasets[i]]
       IN IF pn = NoneStr
          THEN FailDataset("Could not extract process name from")
          ELSE /\ process_name' = pn
               /\ pc' = "query"
               /\ UNCHANGED <<failed_datasets, raised, i, files, output, existing_results>>
    /\ UNCHANGED <<cfgVars, datasets, results, fs, poolVars, callVars, stored,
                   last_flush, durable, flushLog, reported>>

\* _run_serial: the list is exhausted
Serial_End ==
    /\ pc = "loop"
    /\ i > Len(datasets)
    /\ pc' = "final"
    /\ UNCHANGED <<cfgVars, datasets, results, failed_datasets, i, localVars, fs,
                   poolVars, callVars, ghostVars>>

\* process_dataset: files = self.query_das_files(dataset)
Serial_Query ==
    /\ pc = "query"
    /\ \E out \in DasOutcomes :
           LET n == query_das_files(dry_run, out)
           IN /\ das_calls' = IF query_das_invokes(dry_run)
                              THEN [das_calls EXCEPT ![i] = @ + 1]
                              ELSE das_calls
              /\ IF n = 0
                 THEN FailDataset("No files found for")
                 ELSE /\ files' = n
                      /\ pc' = "cmsrun"
                      /\ UNCHANGED <<failed_datasets, raised, i, process_name, output,
                                     existing_results>>
    /\ UNCHANGED <<cfgVars, datasets, results, fs, poolVars, cms_calls, attempted,
                   stored, last_flush, durable, flushLog, reported>>

\* process_dataset: output = self.run_cmsrun(files)
Serial_CmsRun ==
    /\ pc = "cmsrun"
    /\ \E out \in CmsOutcomes :
           LET o == run_cmsrun(files, dry_run, out)
           IN /\ cms_calls' = IF run_cmsrun_invokes(files, dry_run, out)
                              THEN [cms_calls EXCEPT ![i] = @ + 1]
                              ELSE cms_calls
              /\ IF Falsy(o)
                 THEN FailDataset("cmsRun failed for")
                 ELSE /\ output' = o
                      /\ pc' = "parse"
                      /\ UNCHANGED <<failed_datasets, raised, i, process_name, files,
                                     existing_results>>
    /\ UNCHANGED <<cfgVars, datasets, results, fs, poolVars, das_calls, attempted,
                   stored, last_flush, durable, flushLog, reported>>

\* process_dataset: self.results[process_name] = result, then
\* save_results_incremental(process_name) begins
StoreResult(rec) ==
    /\ results' = Put(results, process_name, rec)
    /\ stored' = stored \cup {i}
    /\ pc' = IF sample_mode /\ process_name # NoneStr THEN "flush_read" ELSE "flush_open"
    /\ UNCHANGED <<failed_datasets, raised, i, localVars>>

\* process_dataset: the dry-run placeholder, or parse and build the record
Serial_Parse ==
    /\ pc = "parse"
    /\ IF dry_run
       THEN StoreResult(DryRunResult(files))
       ELSE LET parsed == parse_genxsec_output(output)
            IN IF parsed.st = "raise"
               THEN Raise /\ UNCHANGED <<results, stored>>
               ELSE IF parsed.st = "None" \/ parsed.filter_efficiency = NoneNum
               THEN /\ FailDataset("Could not parse filter efficiency from output for")
                    /\ UNCHANGED <<results, stored>>
               ELSE StoreResult(MetricsRecord(parsed, files))
    /\ UNCHANGED <<cfgVars, datasets, fs, poolVars, callVars, attempted, last_flush,
                   durable, flushLog, reported>>

\* the process_name argument of save_results_incremental: process_dataset
\* passes its own, _run_parallel passes none
FlushArg == IF parallel THEN NoneStr ELSE process_name

\* save_results_incremental: whether it merges into the existing file
FlushMerges == sample_mode /\ FlushArg # NoneStr

\* faulty variants of FlushData: one writes an empty mapping, one ignores what
\* the file held
FlushNothing == EmptyMap
FlushOverwrites == results

\* save_results_incremental: the mapping json.dump writes
FlushData == IF FlushMerges THEN Update(existing_results, results) ELSE results

\* save_results_incremental returns: back to the loop that called it
FlushReturn ==
    IF parallel
    THEN /\ pc' = "par_loop"
         /\ UNCHANGED <<i, localVars>>
    ELSE NextDataset

\* save_results_incremental, sample mode: existing_results = {} or, when the
\* file exists, json.load of it, which raises on a file that is not JSON
Flush_Read ==
    /\ pc = "flush_read"
    /\ LET f == get_output_file(FlushArg)
       IN IF fs[f].st = "partial"
          THEN Raise /\ last_flush' = "raised"
          ELSE /\ existing_results' = fs[f].data
               /\ pc' = "flush_open"
               /\ UNCHANGED <<failed_datasets, raised, i, process_name, files, output,
                              last_flush>>
    /\ UNCHANGED <<cfgVars, datasets, results, fs, poolVars, callVars, attempted,
                   stored, durable, flushLog, reported>>

\* save_results_incremental: open(output_file, 'w') truncates the file, or raises
Flush_Open ==
    /\ pc = "flush_open"
    /\ \E ok \in BOOLEAN :
           IF ok
           THEN /\ fs' = [fs EXCEPT ![get_output_file(FlushArg)] = PartialFile]
                /\ pc' = "flush_write"
                /\ UNCHANGED <<failed_datasets, raised, i, localVars, last_flush>>
           ELSE Raise /\ fs' = fs /\ last_flush' = "raised"
    /\ UNCHANGED <<cfgVars, datasets, results, poolVars, callVars, attempted, stored,
                   durable, flushLog, reported>>

\* save_results_incremental: json.dump writes the mapping, or raises midway
Flush_Write ==
    /\ pc = "flush_write"
    /\ \E ok \in BOOLEAN :
           IF ok
           THEN LET f == get_output_file(FlushArg)
                IN /\ fs' = [fs EXCEPT ![f] = JsonFile(FlushData)]
                   /\ durable' = durable \cup
                          {[file |-> f, key |-> k] : k \in DOMAIN FlushData}
                   /\ flushLog' =
                          IF FlushMerges
                          THEN Append(flushLog, [run |-> run_no, key |-> FlushArg,
                                                 record |-> results[FlushArg]])
                          ELSE flushLog
                   /\ last_flush' = "ok"
                   /\ FlushReturn
                   /\ UNCHANGED <<failed_datasets, raised>>
           ELSE Raise /\ UNCHANGED <<fs, durable, flushLog>> /\ last_flush' = "raised"
    /\ UNCHANGED <<cfgVars, datasets, results, poolVars, callVars, attempted, stored,
                   reported>>

\* a faulty variant of Worker_Run, in which the worker opens the output file
\* itself to save what it computed
WorkerSavesItself ==
    /\ pc \in {"par_loop", "flush_open", "flush_write"}
    /\ parallel
    /\ \E t \in running : \E o \in WorkerOutcomes[datasets[t], dry_run] :
           /\ outq' = Append(outq, o.res)
           /\ running' = (running \ {t}) \cup
                  (IF next_task <= Len(datasets) THEN {next_task} ELSE {})
           /\ next_task' = IF next_task <= Len(datasets) THEN next_task + 1 ELSE next_task
           /\ attempted' = attempted \cup {t}
           /\ das_calls' = IF o.das
                           THEN [das_calls EXCEPT ![t] = @ + 1]
                           ELSE das_calls
           /\ cms_calls' = IF o.cms
                           THEN [cms_calls EXCEPT ![t] = @ + 1]
                           ELSE cms_calls
           /\ fs' = IF o.res.kind = "dict"
                    THEN [fs EXCEPT ![get_output_file(NoneStr)] = PartialFile]
                    ELSE fs
    /\ UNCHANGED <<pc, cfgVars, datasets, results, failed_datasets, i, localVars,
                   completed, raised, stored, last_flush, durable, flushLog, reported>>

\* a worker runs process_dataset_worker on its task, sends the result back and
\* takes the next task, if there is one
Worker_Run ==
    /\ pc \in {"par_loop", "flush_open", "flush_write"}
    /\ parallel
    /\ \E t \in running : \E o \in WorkerOutcomes[datasets[t], dry_run] :
           /\ outq' = Append(outq, o.res)
           /\ running' = (running \ {t}) \cup
                  (IF next_task <= Len(datasets) THEN {next_task} ELSE {})
           /\ next_task' = IF next_task <= Len(datasets) THEN next_task + 1 ELSE next_task
           /\ attempted' = attempted \cup {t}
           /\ das_calls' = IF o.das
                           THEN [das_calls EXCEPT ![t] = @ + 1]
                           ELSE das_calls
           /\ cms_calls' = IF o.cms
                           THEN [cms_calls EXCEPT ![t] = @ + 1]
                           ELSE cms_calls
    /\ UNCHANGED <<pc, cfgVars, datasets, results, failed_datasets, i, localVars, fs,
                   completed, raised, stored, last_flush, durable, flushLog, reported>>

\* multiprocessing.Pool: a worker process dies with its task in hand (killed,
\* out of memory, a crash of cmsRun's parent): the pool starts another worker,
\* which takes the next task; the result of the lost task is never sent
Worker_Dies ==
    /\ pc \in {"par_loop", "flush_open", "flush_write"}
    /\ parallel
    /\ \E t \in running :
           /\ running' = (running \ {t}) \cup
                  (IF next_task <= Len(datasets) THEN {next_task} ELSE {})
           /\ next_task' = IF next_task <= Len(datasets) THEN next_task + 1 ELSE next_task
           /\ attempted' = attempted \cup {t}
    /\ UNCHANGED <<pc, cfgVars, datasets, results, failed_datasets, i, localVars, fs,
                   outq, completed, callVars, raised, stored, last_flush, durable,
                   flushLog, reported>>

\* the place of a dataset in the list
IndexOf(list, d) == CHOOSE k \in 1..Len(list) : list[k] = d

\* the sequence without its element at place k
Without(q, k) == SubSeq(q, 1, k - 1) \o SubSeq(q, k + 1, Len(q))

\* a faulty variant of Par_Consume, which takes the results in the order of the
\* list, as pool.imap does, and waits for the one that is due
Par_ConsumeInOrder ==
    /\ pc = "par_loop"
    /\ \E k \in 1..Len(outq) :
           LET r == outq[k]
           IN /\ r.dataset = datasets[completed + 1]
              /\ outq' = Without(outq, k)
              /\ IF r.kind = "exc"
                 THEN /\ pc' = "error"
                      /\ UNCHANGED <<completed, failed_datasets, results, stored>>
                 ELSE IF r.kind = "str"
                 THEN /\ completed' = completed + 1
                      /\ failed_datasets' = Append(failed_datasets, Failure(r.dataset, r.msg))
                      /\ UNCHANGED <<pc, results, stored>>
                 ELSE /\ completed' = completed + 1
                      /\ results' = Put(results, r.process_name, r.rec)
                      /\ stored' = stored \cup {IndexOf(datasets, r.dataset)}
                      /\ pc' = "flush_open"
                      /\ UNCHANGED failed_datasets
    /\ UNCHANGED <<cfgVars, datasets, i, localVars, fs, next_task, running, callVars,
                   attempted, raised, last_flush, durable, flushLog, reported>>

\* _run_parallel: the next result of imap_unordered; an exception of the
\* worker is raised again here, in the parent
Par_Consume ==
    /\ pc = "par_loop"
    /\ outq # <<>>
    /\ LET r == Head(outq)
       IN /\ outq' = Tail(outq)
          /\ IF r.kind = "exc"
             THEN /\ pc' = "error"
                  /\ UNCHANGED <<completed, failed_datasets, results, stored>>
             ELSE IF r.kind = "str"
             THEN /\ completed' = completed + 1
                  /\ failed_datasets' = Append(failed_datasets, Failure(r.dataset, r.msg))
                  /\ UNCHANGED <<pc, results, stored>>
             ELSE /\ completed' = completed + 1
                  /\ results' = Put(results, r.process_name, r.rec)
                  /\ stored' = stored \cup {IndexOf(datasets, r.dataset)}
                  /\ pc' = "flush_open"
                  /\ UNCHANGED failed_datasets
    /\ UNCHANGED <<cfgVars, datasets, i, localVars, fs, next_task, running, callVars,
                   attempted, raised, last_flush, durable, flushLog, reported>>

\* _run_parallel: every result was consumed
Par_End ==
    /\ pc = "par_loop"
    /\ completed = Len(datasets)
    /\ pc' = "final"
    /\ UNCHANGED <<cfgVars, datasets, results, failed_datasets, i, localVars, fs,
                   poolVars, callVars, ghostVars>>

\* a faulty variant of Final, which saves an empty mapping too
FinalAlwaysSaves ==
    /\ pc = "final"
    /\ pc' = "final_open"
    /\ UNCHANGED <<cfgVars, datasets, results, failed_datasets, i, localVars, fs,
                   poolVars, callVars, ghostVars>>

\* run(): if self.results: save_results() ... else: report_failed_datasets()
Final ==
    /\ pc = "final"
    /\ IF results # EmptyMap
       THEN pc' = "final_open" /\ reported' = reported
       ELSE pc' = "done" /\ reported' = TRUE
    /\ UNCHANGED <<cfgVars, datasets, results, failed_datasets, i, localVars, fs,
                   poolVars, callVars, attempted, raised, stored, last_flush, durable,
                   flushLog>>

\* save_results: open(output_file, 'w') truncates the file, or raises
Final_Open ==
    /\ pc = "final_open"
    /\ \E ok \in BOOLEAN :
           IF ok
           THEN /\ fs' = [fs EXCEPT ![get_output_file(NoneStr)] = PartialFile]
                /\ pc' = "final_write"
           ELSE pc' = "error" /\ fs' = fs
    /\ UNCHANGED <<cfgVars, datasets, results, failed_datasets, i, localVars,
                   poolVars, callVars, ghostVars>>

\* save_results: json.dump; then run() reports the failures (era runs)
Final_Write ==
    /\ pc = "final_write"
    /\ \E ok \in BOOLEAN :
           IF ok
           THEN LET f == get_output_file(NoneStr)
                IN /\ fs' = [fs EXCEPT ![f] = JsonFile(results)]
                   /\ durable' = durable \cup
                          {[file |-> f, key |-> k] : k \in DOMAIN results}
                   /\ reported' = ~single_dataset
                   /\ pc' = "done"
           ELSE /\ pc' = "error"
                /\ UNCHANGED <<fs, durable, reported>>
    /\ UNCHANGED <<cfgVars, datasets, results, failed_datasets, i, localVars,
                   poolVars, callVars, attempted, raised, stored, last_flush, flushLog>>

\* the run is interrupted (KeyboardInterrupt, kill): the process and what it
\* held in memory are gone, the files stay as they are
Interrupt ==
    /\ pc \notin Terminal
    /\ pc' = "interrupted"
    /\ results' = EmptyMap
    /\ failed_datasets' = <<>>
    /\ i' = 1
    /\ process_name' = NoneStr
    /\ files' = 0
    /\ output' = NoneOut
    /\ existing_results' = EmptyMap
    /\ next_task' = 1
    /\ running' = {}
    /\ outq' = <<>>
    /\ completed' = 0
    /\ UNCHANGED <<cfgVars, datasets, fs, callVars, ghostVars>>

\* the script is invoked again with --sample, on the files the runs before left
Next_Invocation ==
    /\ pc \in Terminal
    /\ sample_mode
    /\ run_no < MaxRuns
    /\ run_no' = run_no + 1
    /\ \E d \in DatasetNames : sample_list' = [exists |-> TRUE, lines |-> <<d>>]
    /\ pc' = "start"
    /\ datasets' = <<>>
    /\ results' = EmptyMap
    /\ failed_datasets' = <<>>
    /\ i' = 1
    /\ process_name' = NoneStr
    /\ files' = 0
    /\ output' = NoneOut
    /\ existing_results' = EmptyMap
    /\ das_calls' = ZeroCalls
    /\ cms_calls' = ZeroCalls
    /\ attempted' = {}
    /\ raised' = {}
    /\ stored' = {}
    /\ last_flush' = "none"
    /\ durable' = {}
    /\ reported' = FALSE
    /\ UNCHANGED <<era, dry_run, sample_mode, n_jobs, fs0, fs, poolVars, flushLog>>

\* a faulty variant of Next_Era, in which an exception of run() ends the loop
\* over the eras
EraLoopStopsOnError ==
    /\ pc = "done"
    /\ ~sample_mode
    /\ \E e \in 1..(Len(Eras) - 1) : era = Eras[e] /\ era' = Eras[e + 1]
    /\ sample_list' \in EraLists
    /\ pc' = "start"
    /\ datasets' = <<>>
    /\ results' = EmptyMap
    /\ failed_datasets' = <<>>
    /\ i' = 1
    /\ process_name' = NoneStr
    /\ files' = 0
    /\ output' = NoneOut
    /\ existing_results' = EmptyMap
    /\ next_task' = 1
    /\ running' = {}
    /\ outq' = <<>>
    /\ completed' = 0
    /\ das_calls' = ZeroCalls
    /\ cms_calls' = ZeroCalls
    /\ attempted' = {}
    /\ raised' = {}
    /\ stored' = {}
    /\ last_flush' = "none"
    /\ durable' = {}
    /\ reported' = FALSE
    /\ UNCHANGED <<run_no, dry_run, sample_mode, n_jobs, fs0, fs, flushLog>>

\* a faulty variant of Next_Era, in which the eras share one Store and one
\* failure list
EraKeepsStore ==
    /\ pc \in {"done", "error"}
    /\ ~sample_mode
    /\ \E e \in 1..(Len(Eras) - 1) : era = Eras[e] /\ era' = Eras[e + 1]
    /\ sample_list' \in EraLists
    /\ pc' = "start"
    /\ datasets' = <<>>
    /\ i' = 1
    /\ process_name' = NoneStr
    /\ files' = 0
    /\ output' = NoneOut
    /\ existing_results' = EmptyMap
    /\ next_task' = 1
    /\ running' = {}
    /\ outq' = <<>>
    /\ completed' = 0
    /\ das_calls' = ZeroCalls
    /\ cms_calls' = ZeroCalls
    /\ attempted' = {}
    /\ raised' = {}
    /\ stored' = {}
    /\ last_flush' = "none"
    /\ durable' = {}
    /\ reported' = FALSE
    /\ UNCHANGED <<run_no, dry_run, sample_mode, n_jobs, fs0, fs, flushLog, results,
                   failed_datasets>>

\* main(): for era in eras: run() returned, or except Exception ... continue:
\* a new FilterEffCalculator for the next era, whose list file is then looked up
Next_Era ==
    /\ pc \in {"done", "error"}
    /\ ~sample_mode
    /\ \E e \in 1..(Len(Eras) - 1) : era = Eras[e] /\ era' = Eras[e + 1]
    /\ sample_list' \in EraLists
    /\ pc' = "start"
    /\ datasets' = <<>>
    /\ results' = EmptyMap
    /\ failed_datasets' = <<>>
    /\ i' = 1
    /\ process_name' = NoneStr
    /\ files' = 0
    /\ output' = NoneOut
    /\ existing_results' = EmptyMap
    /\ next_task' = 1
    /\ running' = {}
    /\ outq' = <<>>
    /\ completed' = 0
    /\ das_calls' = ZeroCalls
    /\ cms_calls' = ZeroCalls
    /\ attempted' = {}
    /\ raised' = {}
    /\ stored' = {}
    /\ last_flush' = "none"
    /\ durable' = {}
    /\ reported' = FALSE
    /\ UNCHANGED <<run_no, dry_run, sample_mode, n_jobs, fs0, fs, flushLog>>

\* one run of an era
Next ==
    \/ Run_Start
    \/ Serial_Resolve
    \/ Serial_End
    \/ Serial_Query
    \/ Serial_CmsRun
    \/ Serial_Parse
    \/ Flush_Open
    \/ Flush_Write
    \/ Worker_Run
    \/ Par_Consume
    \/ Par_End
    \/ Final
    \/ Final_Open
    \/ Final_Write
    \/ Interrupt

Spec == Init /\ [][Next]_vars

\* successive runs of single datasets
NextSample ==
    \/ Run_Start
    \/ Serial_Resolve
    \/ Serial_End
    \/ Serial_Query
    \/ Serial_CmsRun
    \/ Serial_Parse
    \/ Flush_Read
    \/ Flush_Open
    \/ Flush_Write
    \/ Final
    \/ Final_Open
    \/ Final_Write
    \/ Interrupt
    \/ Next_Invocation

SpecSample == InitSample /\ [][NextSample]_vars

\* process_dataset from its call of parse_genxsec_output on, and the rest of
\* the run
NextParse ==
    \/ Serial_Parse
    \/ Flush_Open
    \/ Flush_Write
    \/ Serial_End
    \/ Final
    \/ Final_Open
    \/ Final_Write
    \/ Interrupt

SpecParse == InitParse /\ [][NextParse]_vars

\* a serial run of an era
NextSerial ==
    \/ Run_Start
    \/ Serial_Resolve
    \/ Serial_End
    \/ Serial_Query
    \/ Serial_CmsRun
    \/ Serial_Parse
    \/ Flush_Open
    \/ Flush_Write
    \/ Final
    \/ Final_Open
    \/ Final_Write
    \/ Interrupt

SpecResolve == InitResolve /\ [][NextSerial]_vars

\* the steps of the parent process of a run that nobody interrupts
ParentStep ==
    \/ Run_Start
    \/ Serial_Resolve
    \/ Serial_End
    \/ Serial_Query
    \/ Serial_CmsRun
    \/ Serial_Parse
    \/ Flush_Open
    \/ Flush_Write
    \/ Par_Consume
    \/ Par_End
    \/ Final
    \/ Final_Open
    \/ Final_Write

\* one run of an era that nobody interrupts, in which worker processes may die
NextLive ==
    \/ ParentStep
    \/ Worker_Run
    \/ Worker_Dies

\* the parent goes on while it has a step to take, and a worker that stays
\* alive ends its task: every external invocation ends, by its timeout at the
\* latest
SpecLive ==
    Init /\ [][NextLive]_vars /\ WF_vars(ParentStep) /\ WF_vars(Worker_Run)

\* main() with --era all: the runs of the eras, one after the other
NextEras ==
    \/ Next
    \/ Next_Era

\* the loop over the eras goes on when the run of an era is over
SpecEras == InitEras /\ [][NextEras]_vars /\ WF_vars(Next_Era)

\* ------------------------------------------------------------- properties
Range(s) == {s[k] : k \in 1..Len(s)}

\* the FailureRecords of the dataset at place k of the list
FailureRecordsOf(k) ==
    {n \in 1..Len(failed_datasets) : failed_datasets[n].dataset = datasets[k]}

\* run() has returned, or an exception has taken it to main
RunEnded == pc \in {"done", "error"}

\* the loop over the datasets is over
AfterLoop == pc \in {"final", "final_open", "final_write", "done", "error"}

\* the orchestrator is between two datasets
BetweenDatasets == pc \in {"loop", "par_loop"}

\* C1: at the end of a run, serial or parallel, whatever the stages did, every
\* dataset of the list is either a completed dataset whose record was put in
\* the Store or has exactly one FailureRecord, never both and never neither.
C1_AccountedExactlyOnce ==
    RunEnded =>
        \A k \in 1..Len(datasets) :
            \/ k \in stored /\ FailureRecordsOf(k) = {}
            \/ k \notin stored /\ Cardinality(FailureRecordsOf(k)) = 1

\* C2: in a serial run an exception raised while one dataset is processed is
\* caught at the per-dataset boundary and appended as a FailureRecord of that
\* dataset, and every later dataset of the list is still attempted.
C2_SerialExceptionCaught ==
    (~parallel /\ pc # "interrupted") =>
        /\ \A k \in raised :
               Failure(datasets[k], "Unexpected exception") \in Range(failed_datasets)
        /\ (raised # {} /\ AfterLoop) => attempted = 1..Len(datasets)

\* a serial run ended in which a dataset raised and the next one was completed
C2_Witness ==
    /\ ~parallel
    /\ pc = "done"
    /\ \E k \in raised : k < Len(datasets) /\ (k + 1) \in stored

\* C3: in a parallel run the worker never raises across the process boundary:
\* whatever the external steps and the parsing do, what the parent receives
\* for a dataset is a result tuple, a failure or a record.
C3_WorkerNeverRaises ==
    parallel => \A k \in 1..Len(outq) : outq[k].kind \in {"str", "dict"}

C5_FinalFlushUnconditional ==
    (~sample_mode /\ pc = "done") =>
        /\ fs[get_output_file(NoneStr)] = JsonFile(results)
        /\ reported

\* C5, amended: when an era run returns, the FailureRecord list was reported;
\* the Store was flushed once more only if the mapping is not empty, and then
\* the era file holds exactly the final mapping; with an empty mapping the
\* file is as it was before the run.
C5_FinalFlushIfResults ==
    (~sample_mode /\ pc = "done") =>
        /\ reported
        /\ results # EmptyMap => fs[get_output_file(NoneStr)] = JsonFile(results)
        /\ results = EmptyMap => fs[get_output_file(NoneStr)] = fs0[get_output_file(NoneStr)]

\* an era run returned with failures only, and the file of an earlier run is
\* still there
C5_Witness ==
    /\ ~sample_mode
    /\ pc = "done"
    /\ results = EmptyMap
    /\ failed_datasets # <<>>
    /\ fs[get_output_file(NoneStr)] = OldFile

\* C6: when a run is interrupted, at any moment, the output file still holds
\* the record of every dataset whose flush had completed before.
C6_CompletedWorkNeverLost ==
    pc = "interrupted" =>
        \A d \in durable :
            fs[d.file].st = "ok" /\ d.key \in DOMAIN fs[d.file].data

\* C7: under dry-run every dataset whose process name resolves ends stored,
\* with the placeholder record whose total_files is the file count.
C7_DryRunStoresPlaceholder ==
    (dry_run /\ pc = "done") =>
        \A k \in 1..Len(datasets) :
            ProcessNameOf[datasets[k]] # NoneStr =>
                /\ k \in stored
                /\ ProcessNameOf[datasets[k]] \in DOMAIN results
                /\ results[ProcessNameOf[datasets[k]]] = DryRunResult(0)

\* C8: under dry-run neither dasgoclient nor cmsRun is ever started, for
\* any dataset, in serial and in parallel runs.
C8_DryRunInvokesNothing ==
    dry_run =>
        \A k \in DOMAIN das_calls : das_calls[k] = 0 /\ cms_calls[k] = 0

\* a dry run ended after the file query of a dataset was reached
C8_Witness ==
    /\ dry_run
    /\ pc = "done"
    /\ \E k \in 1..Len(failed_datasets) :
           failed_datasets[k].reason = "No files found for"

\* three successive single-dataset runs flushed key A, then another key B,
\* then key A again with a new value; the third run is the run in hand
AThenBThenA ==
    /\ sample_mode
    /\ run_no = 3
    /\ Len(flushLog) = 3
    /\ \A k \in 1..3 : flushLog[k].run = k
    /\ flushLog[1].key = flushLog[3].key
    /\ flushLog[1].key # flushLog[2].key
    /\ flushLog[1].record # flushLog[3].record

\* the mapping with the one key
Single(key, record) == [k \in {key} |-> record]

\* C9, as stated: after the three runs the single-record output file holds
\* exactly {A: newValue, B: value}.
C9_OneFileAccumulates ==
    AThenBThenA =>
        \E f \in FileNames :
            fs[f] = JsonFile(Update(Single(flushLog[2].key, flushLog[2].record),
                                    Single(flushLog[3].key, flushLog[3].record)))

\* C9, amended: after the three runs the file of A, sample_<A>.json, holds what
\* it held before the runs and A with its new value, and the file of B,
\* sample_<B>.json, holds what it held before the runs and B with its value.
C9_PerProcessFilesAccumulate ==
    AThenBThenA =>
        /\ fs[SampleFile(flushLog[3].key)] =
               JsonFile(Update(fs0[SampleFile(flushLog[3].key)].data,
                               Single(flushLog[3].key, flushLog[3].record)))
        /\ fs[SampleFile(flushLog[2].key)] =
               JsonFile(Update(fs0[SampleFile(flushLog[2].key)].data,
                               Single(flushLog[2].key, flushLog[2].record)))

\* the third of the three runs returned
C9_Witness == AThenBThenA /\ pc = "done"

\* C10: after a single-record flush the per-process file holds every key it
\* held that is not in the in-memory mapping, with its old record, and every
\* key of the in-memory mapping with the in-memory record.
C10_ReadMergeWrite ==
    (sample_mode /\ last_flush = "ok" /\ pc # "interrupted") =>
        LET f == SampleFile(flushLog[Len(flushLog)].key)
        IN /\ fs[f].st = "ok"
           /\ \A k \in DOMAIN fs0[f].data \ DOMAIN results :
                  k \in DOMAIN fs[f].data /\ fs[f].data[k] = fs0[f].data[k]
           /\ \A k \in DOMAIN results : fs[f].data[k] = results[k]

\* a flush into a file that held another key, and the key itself from the run
\* before with another record
C10_Witness ==
    /\ sample_mode
    /\ last_flush = "ok"
    /\ pc = "loop"
    /\ Len(flushLog) = 2
    /\ flushLog[1].key = flushLog[2].key
    /\ flushLog[1].record # flushLog[2].record
    /\ fs0[SampleFile(flushLog[2].key)] = OldFile

\* the datasets of the list whose process name resolves have distinct names
DistinctKeys ==
    \A a, b \in 1..Len(datasets) :
        (a # b /\ ProcessNameOf[datasets[a]] # NoneStr) =>
            ProcessNameOf[datasets[a]] # ProcessNameOf[datasets[b]]

\* the process names of the datasets whose record was put
StoredKeys == {ProcessNameOf[datasets[k]] : k \in stored}

\* an aggregate flush has just completed
AfterAggregateFlush ==
    /\ ~sample_mode
    /\ \/ BetweenDatasets /\ last_flush = "ok"
       \/ pc = "done" /\ results # EmptyMap

\* C11, first part: after an aggregate flush the keys of the era file are the
\* keys of the in-memory mapping; keys an earlier run left are gone.
C11_FlushOverwrites ==
    AfterAggregateFlush =>
        /\ fs[ResultsFile(era)].st = "ok"
        /\ DOMAIN fs[ResultsFile(era)].data = DOMAIN results

\* C11, second part, the keys: after a serial run over distinct process names
\* with a success the era file holds exactly the keys of the stored datasets.
C11_FileKeysAreStoredKeys ==
    (~sample_mode /\ ~parallel /\ pc = "done" /\ DistinctKeys /\ stored # {}) =>
        DOMAIN fs[ResultsFile(era)].data = StoredKeys

\* C11: an aggregate flush overwrites the era file with the in-memory mapping;
\* after a serial run over distinct process names with a success the file
\* holds exactly the keys of the successful datasets and there are as many
\* FailureRecords as datasets that did not succeed.
C11_AggregateOverwriteAndCounts ==
    /\ C11_FlushOverwrites
    /\ C11_FileKeysAreStoredKeys
    /\ (~sample_mode /\ ~parallel /\ pc = "done" /\ DistinctKeys /\ stored # {}) =>
           Len(failed_datasets) = Len(datasets) - Cardinality(stored)

\* the datasets the failure list names
FailedNames == {failed_datasets[n].dataset : n \in 1..Len(failed_datasets)}

\* the datasets of the list whose record was not put
NotStoredNames == {datasets[k] : k \in (1..Len(datasets)) \ stored}

\* what C12 says of the end of a parallel run
ParallelOutcome ==
    /\ DOMAIN results = StoredKeys
    /\ stored # {} => fs[ResultsFile(era)] = JsonFile(results)
    /\ FailedNames = NotStoredNames
    /\ Len(failed_datasets) = Cardinality(NotStoredNames)

\* C12, for the runs that return: whatever the order in which the workers
\* complete, the outcome is as C12 says.
C12_WhenRunReturns ==
    (parallel /\ pc = "done" /\ DistinctKeys) => ParallelOutcome

\* C12: at the end of a parallel run over distinct process names, whatever the
\* order in which the workers complete, the Store and the era file hold exactly
\* the keys of the datasets that succeeded and the failure list holds exactly
\* the datasets that failed.
C12_ParallelOrderIndependent ==
    (parallel /\ RunEnded /\ DistinctKeys) => ParallelOutcome

\* a step in which a worker sends a result back
WorkerStep == Len(outq') > Len(outq)

\* the places of the parent at which it writes the output file
WritingPcs == {"flush_open", "flush_write", "final_open", "final_write"}

\* C13: only the parent changes the mapping, the failure list and the output
\* file: no step of a worker changes any of them, and a file is opened for
\* writing only by the parent, at a save, while no other write of it is under
\* way.
C13_SingleWriter ==
    [][/\ WorkerStep => UNCHANGED <<results, failed_datasets, fs>>
       /\ fs' # fs =>
              /\ pc \in WritingPcs
              /\ UNCHANGED <<running, next_task>>
              /\ \A f \in DOMAIN fs :
                     (fs'[f] = PartialFile /\ fs[f] # fs'[f]) => pc \in {"flush_open", "final_open"}
      ]_vars

\* the parent is in the middle of a write of the output file while a worker
\* has sent a result and another one is still at work
C13_Witness ==
    /\ parallel
    /\ pc = "flush_write"
    /\ fs[ResultsFile(era)] = PartialFile
    /\ running # {}
    /\ attempted # {}

\* the key and the record of the dataset whose processing is about to complete
IncomingKey == IF parallel THEN Head(outq).process_name ELSE process_name
IncomingRecord ==
    IF parallel THEN Head(outq).rec
    ELSE IF dry_run THEN DryRunResult(files)
    ELSE MetricsRecord(parse_genxsec_output(output), files)

\* every change of the Store of a running process puts, under the key of the
\* dataset that has just completed, the whole record that dataset produced, and
\* leaves every other key as it was; a step that appends a FailureRecord leaves
\* the Store as it was
C14_PutReplacesWhole ==
    [][/\ (results' # results /\ pc' # "interrupted") =>
              /\ pc \in {"parse", "par_loop"}
              /\ results' = [k \in DOMAIN results \cup {IncomingKey} |->
                                IF k = IncomingKey THEN IncomingRecord ELSE results[k]]
       /\ Len(failed_datasets') > Len(failed_datasets) => results' = results
      ]_vars

\* C14: each key of the Store maps to the one record of the most recently
\* completed successful dataset with that key, replaced as a whole; a dataset
\* that failed (one the failure list names) has left the Store untouched, so no
\* dataset of the failure list is one whose record was put in the place of the
\* record of an earlier dataset with the same key.
C14_LastWriteWins ==
    \A j, k \in stored :
        (j < k /\ ProcessNameOf[datasets[j]] = ProcessNameOf[datasets[k]]) =>
            datasets[k] \notin FailedNames

\* the second of two datasets with one key has replaced the record of the first
C14_Replaced ==
    /\ ~parallel
    /\ pc = "flush_open"
    /\ i = 2
    /\ stored = {1, 2}
    /\ ProcessNameOf[datasets[1]] = ProcessNameOf[datasets[2]]
    /\ last_flush = "ok"
    /\ fs[ResultsFile(era)].st = "ok"
    /\ fs[ResultsFile(era)].data[process_name] # results[process_name]

\* C15: there is no retry: no dataset triggers more than one file-listing query
\* or more than one analyzer invocation, serial or parallel, and in a run that
\* returns every listed dataset was processed, with exactly one query for each
\* dataset that has a process name unless the run is a dry run.
C15_NoRetry ==
    /\ \A k \in DOMAIN das_calls : das_calls[k] <= 1 /\ cms_calls[k] <= 1
    /\ pc = "done" =>
           /\ attempted = 1..Len(datasets)
           /\ ~dry_run =>
                  \A k \in 1..Len(datasets) :
                      ProcessNameOf[datasets[k]] # NoneStr => das_calls[k] = 1

\* a run returned in which a dataset failed after its query and its analyzer
\* invocation, each made once
C15_Witness ==
    /\ pc = "done"
    /\ \E k \in 1..Len(datasets) :
           /\ k \notin stored
           /\ datasets[k] \in FailedNames
           /\ das_calls[k] = 1
           /\ cms_calls[k] = 1

\* the reasons of the failures at key resolution, at the file listing and at
\* the analyzer or the parsing
ReasonsNoKey == {"Could not extract process name from", "Could not extract process name"}
ReasonsNoFiles == {"No files found for"}

\* the process names of the datasets of the list
InputKeys == {ProcessNameOf[datasets[k]] : k \in 1..Len(datasets)} \ {NoneStr}

\* C16: the stages of a dataset come in the order key resolution, file listing,
\* analyzer, parsing, store, and a failure ends the dataset there: no query for
\* a dataset without a process name, no analyzer without a query that listed
\* files, a record only after both and with a parsed filter efficiency, every
\* key of the Store the process name of a listed dataset, and a dataset that
\* failed at a stage never went through a later one.
C16_StagesInOrder ==
    /\ \A k \in 1..Len(datasets) :
           /\ das_calls[k] > 0 => ProcessNameOf[datasets[k]] # NoneStr
           /\ cms_calls[k] > 0 => das_calls[k] > 0
           /\ k \in stored =>
                  /\ ProcessNameOf[datasets[k]] # NoneStr
                  /\ das_calls[k] = 1
                  /\ cms_calls[k] = 1
    /\ pc \in {"query", "cmsrun", "parse"} => process_name # NoneStr
    /\ pc \in {"cmsrun", "parse"} => files > 0
    /\ pc = "parse" => ~Falsy(output)
    /\ \A key \in DOMAIN results :
           /\ key \in InputKeys
           /\ results[key].filter_efficiency # NoneNum
    /\ \A n \in 1..Len(failed_datasets) :
           LET k == IndexOf(datasets, failed_datasets[n].dataset)
               r == failed_datasets[n].reason
           IN /\ r \in ReasonsNoKey =>
                     das_calls[k] = 0 /\ cms_calls[k] = 0 /\ k \notin stored
              /\ r \in ReasonsNoFiles => cms_calls[k] = 0 /\ k \notin stored
              /\ r # "Unexpected exception" => k \notin stored

\* a run returned in which one dataset went through every stage to the Store
\* and another one stopped at the file listing
C16_Witness ==
    /\ pc = "done"
    /\ stored # {}
    /\ \E n \in 1..Len(failed_datasets) :
           /\ failed_datasets[n].reason \in ReasonsNoFiles
           /\ das_calls[IndexOf(datasets, failed_datasets[n].dataset)] = 1

\* run() found the list file of the era missing: get_sample_list_path raised
MissingList == ~sample_mode /\ ~sample_list.exists /\ pc = "error"

\* C17: when the list file of an era is missing the run of that era raises
\* before any processing: no dataset is processed, no external command is
\* started, no FailureRecord is made and no step changes a file; and the loop
\* over the eras goes on to the next era.
C17_MissingListSkipsEra ==
    /\ []((~sample_mode /\ ~sample_list.exists) =>
              /\ pc \in {"start", "error", "interrupted"}
              /\ datasets = <<>>
              /\ attempted = {}
              /\ das_calls = ZeroCalls
              /\ cms_calls = ZeroCalls
              /\ failed_datasets = <<>>
              /\ results = EmptyMap
              /\ durable = {})
    /\ [][~sample_list.exists => fs' = fs]_vars
    /\ \A e \in 1..(Len(Eras) - 1) :
           (MissingList /\ era = Eras[e]) ~> (era = Eras[e + 1] /\ pc = "start")

\* the list file of an era that is not the last one was missing and its run
\* has raised
C17_Witness ==
    /\ MissingList
    /\ attempted = {}
    /\ \E e \in 1..(Len(Eras) - 1) : era = Eras[e]

\* the three ways a subprocess of the runner fails
Causes == {"nonzero", "timeout", "fault"}
DasFailure(c) == [rc |-> c, n |-> 0]
CmsFailure(c) == [ana_py |-> TRUE, rc |-> c, stdout |-> <<>>, stderr |-> <<>>]

\* the dataset in hand fails with the reason, and the Store and the files stay
FailsWith(reason) ==
    /\ failed_datasets' = Append(failed_datasets, Failure(datasets[i], reason))
    /\ results' = results
    /\ stored' = stored
    /\ fs' = fs

\* C18: the runner does not tell a timeout, a non-zero exit and an invocation
\* fault apart: each of them gives the empty list at the query and no output at
\* the analyzer, in the parent and in a worker, and the dataset then ends with
\* the one FailureRecord reason of that stage, the Store and the files unchanged.
C18_RunnerFailuresAlike ==
    /\ [](~dry_run =>
              /\ pc = "query" =>
                     \A c \in Causes : query_das_files(dry_run, DasFailure(c)) = 0
              /\ pc = "cmsrun" =>
                     \A c \in Causes : run_cmsrun(files, dry_run, CmsFailure(c)) = NoneOut
              /\ \A t \in running :
                     ProcessNameOf[datasets[t]] # NoneStr =>
                         /\ \A c \in Causes : \A cout \in CmsOutcomes :
                                process_dataset_worker(datasets[t], dry_run,
                                                       DasFailure(c), cout)
                                    = WorkerStr(datasets[t], NoneStr, "No files found for")
                         /\ \A c \in Causes :
                                process_dataset_worker(datasets[t], dry_run,
                                                       [rc |-> "ok", n |-> MaxFiles],
                                                       CmsFailure(c))
                                    = WorkerStr(datasets[t], NoneStr, "cmsRun failed for"))
    /\ [][/\ (pc = "query" /\ pc' = "loop") => FailsWith("No files found for")
          /\ (pc = "cmsrun" /\ pc' = "loop") => FailsWith("cmsRun failed for")
          /\ (pc = "query" /\ pc' = "cmsrun") => files' > 0
          /\ (pc = "cmsrun" /\ pc' = "parse") => ~Falsy(output')
         ]_vars

\* a run returned in which one dataset failed at a query that was started and
\* another one at an analyzer that was started
C18_Witness ==
    /\ pc = "done"
    /\ ~dry_run
    /\ \E m, n \in 1..Len(failed_datasets) :
           /\ failed_datasets[m].reason = "No files found for"
           /\ das_calls[IndexOf(datasets, failed_datasets[m].dataset)] = 1
           /\ failed_datasets[n].reason = "cmsRun failed for"
           /\ cms_calls[IndexOf(datasets, failed_datasets[n].dataset)] = 1

\* the first line of a kind in a report, and whether there is one
HasKind(lines, kd) == \E j \in 1..Len(lines) : lines[j].kind = kd
FirstOfKind(lines, kd) ==
    lines[CHOOSE j \in 1..Len(lines) :
              /\ lines[j].kind = kd
              /\ \A h \in 1..(j - 1) : lines[h].kind # kd]

\* a selected value and error, or none
Picked(ln) == [v |-> ToFloat(ln.v), e |-> ToFloat(ln.e)]
NonePicked == [v |-> NoneNum, e |-> NoneNum]

\* the cross section C19 expects of a report
ExpectedXsec(lines) ==
    IF HasKind(lines, "xs_after") THEN Picked(FirstOfKind(lines, "xs_after"))
    ELSE IF HasKind(lines, "xs_before") THEN Picked(FirstOfKind(lines, "xs_before"))
    ELSE IF HasKind(lines, "xs_bare") THEN Picked(FirstOfKind(lines, "xs_bare"))
    ELSE NonePicked

\* C19: the cross section and its error come from the "After filter" line when
\* the text has one, else from the "Before matching" line, else from a bare
\* "cross section =" line, wherever the lines stand in the text, and are absent
\* when there is none; the record that is stored carries the same two fields.
C19_XsecPrecedence ==
    /\ ~Falsy(output) =>
           LET parsed == parse_genxsec_output(output)
           IN /\ parsed.st = "ok"
              /\ parsed.cross_section = ExpectedXsec(output.lines).v
              /\ parsed.cross_section_error = ExpectedXsec(output.lines).e
    /\ (pc \in {"flush_open", "flush_write"} /\ stored = {1}) =>
           /\ results[process_name].cross_section = ExpectedXsec(output.lines).v
           /\ results[process_name].cross_section_error = ExpectedXsec(output.lines).e

\* a record was stored from a report whose "Before matching" line and bare line
\* stand before its "After filter" line, with the cross section of the latter
C19_Witness ==
    /\ pc = "flush_open"
    /\ stored = {1}
    /\ Len(output.lines) = 3
    /\ output.lines[1].kind \in {"xs_before", "xs_bare"}
    /\ output.lines[2].kind = "fe_event"
    /\ output.lines[3].kind = "xs_after"
    /\ results[process_name].cross_section = ToFloat(output.lines[3].v)
    /\ results[process_name].cross_section_error = ToFloat(output.lines[3].e)

\* the filter efficiency C20 expects of a report
ExpectedFilterEff(lines) ==
    IF HasKind(lines, "fe_event") THEN Picked(FirstOfKind(lines, "fe_event"))
    ELSE IF HasKind(lines, "fe_loose") THEN Picked(FirstOfKind(lines, "fe_loose"))
    ELSE NonePicked

\* C20: the filter efficiency and its error come from the event-level line
\* whenever the text has one, even after a line that only the looser pattern
\* matches; the looser pattern decides only when there is no event-level line,
\* and both fields are absent when neither matches; the record that is stored
\* carries the same two fields.
C20_EventLevelPreferred ==
    /\ ~Falsy(output) =>
           LET parsed == parse_genxsec_output(output)
           IN /\ parsed.st = "ok"
              /\ parsed.filter_efficiency = ExpectedFilterEff(output.lines).v
              /\ parsed.filter_efficiency_error = ExpectedFilterEff(output.lines).e
    /\ (pc \in {"flush_open", "flush_write"} /\ stored = {1}) =>
           /\ results[process_name].filter_efficiency = ExpectedFilterEff(output.lines).v
           /\ results[process_name].filter_efficiency_error
                  = ExpectedFilterEff(output.lines).e

\* a record was stored from a report whose looser line stands before its
\* event-level line, with the filter efficiency of the event-level line
C20_Witness ==
    /\ pc = "flush_open"
    /\ stored = {1}
    /\ Len(output.lines) >= 2
    /\ output.lines[1].kind = "fe_loose"
    /\ output.lines[2].kind = "fe_event"
    /\ results[process_name].filter_efficiency = ToFloat(output.lines[2].v)
    /\ results[process_name].filter_efficiency_error = ToFloat(output.lines[2].e)
    /\ results[process_name].filter_efficiency # ToFloat(output.lines[1].v)

\* the reasons of a parse failure, in process_dataset and in the worker
ReasonsNoParse ==
    {"Could not parse filter efficiency from output for",
     "Could not parse filter efficiency for"}

\* a dataset whose output yields no filter efficiency is recorded as a parse
\* failure and nothing is put in the Store for it, whatever else was extracted
C21_NoEfficiencyFails ==
    [][(/\ pc = "parse"
        /\ ~dry_run
        /\ parse_genxsec_output(output).st = "ok"
        /\ parse_genxsec_output(output).filter_efficiency = NoneNum
        /\ pc' # "interrupted") =>
            FailsWith("Could not parse filter efficiency from output for")]_vars

\* C21: the parser returns nothing for an absent or empty text and a record for
\* any other text, and a dataset whose output yields no filter efficiency is
\* recorded as a parse failure with nothing put in the Store, even when a cross
\* section and an event count were extracted.
C21_ParseReturnsRecord ==
    /\ [](/\ parse_genxsec_output(NoneOut) = ParsedNone
          /\ parse_genxsec_output(Text(<<>>, 0)) = ParsedNone
          /\ (pc = "parse" /\ ~dry_run) =>
                 parse_genxsec_output(output).st = "ok")
    /\ C21_NoEfficiencyFails

\* the second '/'-separated segment of an identifier, when it has two
SlashesOf(txt) == {p \in 1..Len(txt) : txt[p] = "/"}
SecondSegment(txt) ==
    LET p1 == CHOOSE p \in SlashesOf(txt) : \A q \in SlashesOf(txt) : p <= q
        later == {q \in SlashesOf(txt) : q > p1}
        p2 == IF later = {} THEN Len(txt) + 1
              ELSE CHOOSE q \in later : \A r \in later : q <= r
    IN SubSeq(txt, p1 + 1, p2 - 1)

\* whether a str is, as a whole, <TAG>_MHc-<digits>_MA-<digits> or
\* <TAG>_MHc-<digits>_MA<digits>
AllDigits(seg, a, b) == a <= b /\ b <= Len(seg) /\ \A j \in a..b : seg[j] \in Digits
IsProcessPattern(seg) ==
    /\ HasAt(seg, 1, TagLit)
    /\ \E n1 \in 1..Len(seg) : \E h \in {0, 1} :
           LET a == Len(TagLit) + 1
               b == a + n1
               c == b + Len(MALit) + h
           IN /\ AllDigits(seg, a, b - 1)
              /\ HasAt(seg, b, MALit)
              /\ h = 1 => HasAt(seg, b + Len(MALit), <<"-">>)
              /\ c <= Len(seg)
              /\ AllDigits(seg, c, Len(seg))

\* the process name C22 expects of an identifier: the longest leading substring
\* of the second segment that has the pattern, or none
ExpectedProcessName(txt) ==
    IF SlashesOf(txt) = {} THEN NoneStr
    ELSE LET seg  == SecondSegment(txt)
             lens == {n \in 1..Len(seg) : IsProcessPattern(SubSeq(seg, 1, n))}
         IN IF lens = {} THEN NoneStr
            ELSE SubSeq(seg, 1, CHOOSE n \in lens : \A m \in lens : m <= n)

\* C22: the process name of an identifier is the leading substring of its
\* second segment that has the pattern <TAG>_MHc-<digits>_MA-<digits> or
\* <TAG>_MHc-<digits>_MA<digits>, with every digit of the second number, and
\* there is none for an identifier with fewer than two segments or whose second
\* segment does not start with the pattern; the dataset goes on under that name
\* or fails at key resolution accordingly.
C22_ResolveLeadingPattern ==
    /\ \A k \in 1..Len(datasets) :
           ProcessNameOf[datasets[k]] = ExpectedProcessName(DatasetText(datasets[k]))
    /\ pc \in {"query", "cmsrun", "parse", "flush_open", "flush_write"} =>
           /\ process_name # NoneStr
           /\ process_name = ExpectedProcessName(DatasetText(datasets[i]))
    /\ \A n \in 1..Len(failed_datasets) :
           failed_datasets[n].reason \in ReasonsNoKey <=>
               ExpectedProcessName(DatasetText(failed_datasets[n].dataset)) = NoneStr
    /\ \A key \in DOMAIN results :
           \E k \in 1..Len(datasets) : key = ExpectedProcessName(DatasetText(datasets[k]))

\* the identifier with the concatenated MA form and three digits was resolved
\* to the name that ends with the three digits, and its record was stored
\* under it
C22_Witness ==
    /\ datasets = <<"r02">>
    /\ stored = {1}
    /\ DOMAIN results = {TagLit \o <<"1", "0", "0", "_", "M", "A", "1", "3", "5">>}

\* an identifier of one segment that has the pattern failed at key resolution
C22_WitnessAbsent ==
    /\ datasets = <<"r05">>
    /\ Len(failed_datasets) = 1
    /\ failed_datasets[1].reason \in ReasonsNoKey

\* every dataset of the list has its record in the Store or is in the failure
\* list
AllAccounted ==
    \A k \in 1..Len(datasets) : k \in stored \/ datasets[k] \in FailedNames

\* a serial run over a list reaches its end-of-run step with every dataset
\* completed or failed
C23_SerialTerminates ==
    (pc = "start" /\ sample_list.exists /\ ~parallel) ~> (pc = "final" /\ AllAccounted)

\* the parent of a parallel run does not stay in the loop over the results for
\* ever
C23_NeverWaitsForever ==
    (pc = "par_loop") ~> (pc \in {"final", "error"})

\* C23: every run over a list terminates: it reaches its end-of-run step with
\* every dataset completed or failed, serial or parallel, also when a worker
\* process dies with a dataset in hand.
C23_RunTerminates ==
    (pc = "start" /\ sample_list.exists) ~> (pc = "final" /\ AllAccounted)

\* C24: in a parallel run the results are consumed in the order in which the
\* workers complete: each record put and each failure appended is that of the
\* oldest result not yet consumed, whatever its place in the list and whatever
\* is still running, and each write of the file holds every record consumed so
\* far, so the writes follow the order of completion.
C24_CompletionOrder ==
    [][parallel =>
           /\ Len(outq') > Len(outq) => SubSeq(outq', 1, Len(outq)) = outq
           /\ stored' # stored =>
                  /\ outq # <<>>
                  /\ Head(outq).kind = "dict"
                  /\ stored' = stored \cup {IndexOf(datasets, Head(outq).dataset)}
                  /\ results' = Put(results, Head(outq).process_name, Head(outq).rec)
                  /\ outq' = Tail(outq)
           /\ Len(failed_datasets') > Len(failed_datasets) =>
                  /\ outq # <<>>
                  /\ failed_datasets'[Len(failed_datasets')].dataset = Head(outq).dataset
                  /\ outq' = Tail(outq)
           /\ (fs' # fs /\ fs'[ResultsFile(era)].st = "ok") =>
                  /\ fs'[ResultsFile(era)].data = results
                  /\ DOMAIN results = {ProcessNameOf[datasets[k]] : k \in stored}
      ]_vars

\* the record of the second dataset of the list is in the Store and in the file
\* while the first one, dispatched before it, is still running
C24_Witness ==
    /\ parallel
    /\ pc = "par_loop"
    /\ 1 \in running
    /\ stored = {2}
    /\ fs[ResultsFile(era)] = JsonFile(results)
    /\ DOMAIN results = {ProcessNameOf[datasets[2]]}

\* the reasons of the failures at one of the four stages
StageReasons ==
    ReasonsNoKey \cup ReasonsNoFiles \cup {"cmsRun failed for"} \cup ReasonsNoParse

\* the datasets that only failed: not stored, and no stored dataset has their key
OnlyFailedKeys ==
    {ProcessNameOf[datasets[k]] : k \in (1..Len(datasets)) \ stored} \ StoredKeys

\* C25: a dataset that fails at a stage leaves the mapping and the output file
\* as they were and appends exactly one FailureRecord; the failure list only
\* grows at its end while the run lasts; the Store and what the run wrote to
\* the file hold records under keys of stored datasets only, never a
\* FailureRecord or the key of a dataset that only failed.
C25_FailureFrame ==
    /\ [][pc' # "interrupted" =>
              /\ \/ failed_datasets' = failed_datasets
                 \/ /\ Len(failed_datasets') = Len(failed_datasets) + 1
                    /\ SubSeq(failed_datasets', 1, Len(failed_datasets)) = failed_datasets
              /\ Len(failed_datasets') > Len(failed_datasets) =>
                     /\ results' = results
                     /\ fs' = fs
                     /\ durable' = durable
         ]_vars
    /\ [](/\ \A n \in 1..Len(failed_datasets) :
                 failed_datasets[n].reason \in StageReasons =>
                     IndexOf(datasets, failed_datasets[n].dataset) \notin stored
          /\ \A key \in DOMAIN results :
                 /\ key \notin OnlyFailedKeys
                 /\ "reason" \notin DOMAIN results[key]
          /\ \A f \in DOMAIN fs :
                 fs[f] # fs0[f] =>
                     \A key \in DOMAIN fs[f].data :
                         /\ key \notin OnlyFailedKeys
                         /\ "reason" \notin DOMAIN fs[f].data[key])

\* a run returned in which a dataset failed at a stage after another one was
\* stored and written to the file
C25_Witness ==
    /\ pc = "done"
    /\ stored = {1}
    /\ Len(datasets) = 2
    /\ Len(failed_datasets) = 1
    /\ failed_datasets[1].reason \in StageReasons
    /\ fs[ResultsFile(era)] = JsonFile(results)
    /\ ProcessNameOf[datasets[2]] \notin DOMAIN results

\* the reason of the FailureRecord a step appends
NewReason == failed_datasets'[Len(failed_datasets')].reason

\* a dataset whose analyzer gave no output fails with the cmsRun-failed reason
C26_NoOutputIsCmsRunFailed ==
    [][(pc = "cmsrun" /\ Len(failed_datasets') > Len(failed_datasets)) =>
           NewReason = "cmsRun failed for"]_vars

\* C26: the reason of a FailureRecord follows the stage: the cmsRun-failed
\* reason when the analyzer returned no output or faulted, and the
\* unparseable-output reason only when the analyzer produced output in which no
\* filter-efficiency pattern matched; an analyzer that exits successfully with
\* nothing on either stream is not recorded as unparseable output.
C26_ReasonFollowsStage ==
    [][/\ (pc = "cmsrun" /\ Len(failed_datasets') > Len(failed_datasets)) =>
              NewReason = "cmsRun failed for"
       /\ (~parallel /\ Len(failed_datasets') > Len(failed_datasets)
              /\ NewReason \in ReasonsNoParse) =>
              /\ pc = "parse"
              /\ output.lines # <<>>
              /\ filter_eff_match(output.lines) = 0
      ]_vars

\* whether two failure reasons are those of one stage
SameStage(r1, r2) ==
    \/ r1 \in ReasonsNoKey /\ r2 \in ReasonsNoKey
    \/ r1 \in ReasonsNoFiles /\ r2 \in ReasonsNoFiles
    \/ r1 = "cmsRun failed for" /\ r2 = "cmsRun failed for"
    \/ r1 \in ReasonsNoParse /\ r2 \in ReasonsNoParse

\* what a worker returns for the dataset of a serial run that is at its parse
\* step, from the same file list and the same output of the analyzer
WorkerOnSame ==
    process_dataset_worker(datasets[i], dry_run, [rc |-> "ok", n |-> files],
                           [ana_py |-> TRUE, rc |-> "ok", stdout |-> <<>>,
                            stderr |-> output.lines])

\* what a worker returns for the dataset in hand when its query, or its
\* analyzer, fails
WorkersOnFailedQuery ==
    {process_dataset_worker(datasets[i], dry_run, dout, cout) :
         dout \in {o \in DasOutcomes : query_das_files(dry_run, o) = 0},
         cout \in CmsOutcomes}
WorkersOnFailedCmsRun ==
    {process_dataset_worker(datasets[i], dry_run, [rc |-> "ok", n |-> files], cout) :
         cout \in {o \in CmsOutcomes : Falsy(run_cmsrun(files, dry_run, o))}}

\* the steps of a serial run up to the parse do to the Store and the failure
\* list what the parent of a parallel run does with the worker's result for
\* the same outcomes
C27_SameBeforeParse ==
    [][(~parallel /\ ~sample_mode /\ pc' # "interrupted") =>
           /\ (pc = "loop" /\ Len(failed_datasets') > Len(failed_datasets)) =>
                  /\ results' = results
                  /\ \A dout \in DasOutcomes : \A cout \in CmsOutcomes :
                         LET w == process_dataset_worker(datasets[i], dry_run, dout, cout)
                         IN w.kind = "str" /\ SameStage(NewReason, w.msg)
           /\ (pc = "query" /\ Len(failed_datasets') > Len(failed_datasets)) =>
                  /\ results' = results
                  /\ \A w \in WorkersOnFailedQuery :
                         w.kind = "str" /\ SameStage(NewReason, w.msg)
           /\ (pc = "cmsrun" /\ Len(failed_datasets') > Len(failed_datasets)) =>
                  /\ results' = results
                  /\ \A w \in WorkersOnFailedCmsRun :
                         w.kind = "str" /\ SameStage(NewReason, w.msg)
           /\ (pc = "parse" /\ WorkerOnSame.kind = "dict") =>
                  /\ results' = Put(results, WorkerOnSame.process_name, WorkerOnSame.rec)
                  /\ failed_datasets' = failed_datasets
           /\ (pc = "parse" /\ WorkerOnSame.kind = "str") =>
                  /\ results' = results
                  /\ Len(failed_datasets') = Len(failed_datasets) + 1
                  /\ SameStage(NewReason, WorkerOnSame.msg)
      ]_vars

\* C27: a serial run and a parallel run over the same list and with the same
\* outcomes of the external steps end alike: each step of a serial run does to
\* the Store and to the failure list what the parent of a parallel run does
\* with the worker's result for the same outcomes, a put of the same record, a
\* failure of the same stage, or the end of the run where the parallel run ends.
C27_SerialParallelAlike ==
    /\ C27_SameBeforeParse
    /\ [][(~parallel /\ ~sample_mode /\ pc = "parse" /\ pc' # "interrupted"
              /\ WorkerOnSame.kind = "exc") =>
              (pc' = "error" /\ failed_datasets' = failed_datasets)]_vars

\* the place of the era in hand in the list of the eras
EraIndex == CHOOSE e \in DOMAIN Eras : Eras[e] = era

\* C28: with several eras in one invocation each era has its own Store and
\* failure list, empty at its start: only the file of the era in hand is ever
\* written, with the mapping of that era's run, whose keys and failures are
\* those of that era's datasets; the files of the eras to come are untouched;
\* and a run that an exception ended is followed by the run of the next era.
C28_ErasAreSeparate ==
    /\ [](/\ pc = "start" => (results = EmptyMap /\ failed_datasets = <<>>)
          /\ DOMAIN results \subseteq InputKeys
          /\ FailedNames \subseteq {datasets[k] : k \in 1..Len(datasets)}
          /\ \A e \in DOMAIN Eras : e > EraIndex => fs[ResultsFile(Eras[e])] = AbsentFile)
    /\ [][fs' # fs =>
              /\ \A f \in DOMAIN fs : f # ResultsFile(era) => fs'[f] = fs[f]
              /\ era' = era
              /\ fs'[ResultsFile(era)].st = "ok" =>
                     /\ fs'[ResultsFile(era)].data = results
                     /\ DOMAIN results \subseteq InputKeys
         ]_vars
    /\ \A e \in 1..(Len(Eras) - 1) :
           (pc = "error" /\ era = Eras[e]) ~> (pc = "start" /\ era = Eras[e + 1])

\* the second era's run returned with its own record in its own file, after the
\* first era's run had written another key to the first era's file
C28_Witness ==
    /\ era = Eras[2]
    /\ pc = "done"
    /\ stored = {1}
    /\ fs[ResultsFile(Eras[2])] = JsonFile(results)
    /\ fs[ResultsFile(Eras[1])].st = "ok"
    /\ DOMAIN fs[ResultsFile(Eras[1])].data # {}
    /\ DOMAIN fs[ResultsFile(Eras[1])].data \cap DOMAIN results = {}

\* the file every single-dataset run saves to at its end
SharedFile == ResultsFile(SampleStem)

\* the single-dataset run in hand ended as a success: it returned, its dataset
\* is stored and nothing failed
SuccessfulRun ==
    sample_mode /\ pc = "done" /\ stored = {1} /\ failed_datasets = <<>>

\* the keys the runs before the one in hand flushed: the key of the last
\* successful run, if there was one, is among them
EarlierKeys == {flushLog[k].key : k \in {j \in 1..Len(flushLog) : flushLog[j].run < run_no}}

\* C29, as stated: a successful single-dataset run has merged its record into
\* sample_<key>.json and has overwritten results_sample.json with its own
\* mapping of one key; after a run that was not a success results_sample.json
\* still holds exactly one key, that of an earlier run, or is absent; and the run took the serial path.
C29_SharedFileHoldsLastSuccess ==
    (sample_mode /\ pc \in Terminal) =>
        /\ ~parallel
        /\ SuccessfulRun =>
               LET key == ProcessNameOf[datasets[1]]
               IN /\ DOMAIN results = {key}
                  /\ fs[SharedFile] = JsonFile(results)
                  /\ fs[SampleFile(key)] =
                         JsonFile(Update(fs0[SampleFile(key)].data, results))
        /\ ~SuccessfulRun =>
               \/ fs[SharedFile] = AbsentFile
               \/ /\ fs[SharedFile].st = "ok"
                  /\ \E k \in EarlierKeys : DOMAIN fs[SharedFile].data = {k}

\* what holds of C29: a successful run leaves its one record in both files
C29_SuccessWritesBoth ==
    SuccessfulRun =>
        LET key == ProcessNameOf[datasets[1]]
        IN /\ ~parallel
           /\ DOMAIN results = {key}
           /\ fs[SharedFile] = JsonFile(results)
           /\ fs[SampleFile(key)].st = "ok"
           /\ fs[SampleFile(key)].data[key] = results[key]

\* what holds of C29: a run changes no per-process file but that of its own key,
\* and a run that stored nothing leaves results_sample.json alone
C29_OtherFilesUntouched ==
    [][/\ \A p \in ProcessKeys :
              fs'[SampleFile(p)] # fs[SampleFile(p)] =>
                  (datasets # <<>> /\ p = ProcessNameOf[datasets[1]])
       /\ fs'[SharedFile] # fs[SharedFile] => results # EmptyMap
      ]_vars

====
